---- MODULE Spec2Model ----
(***************************************************************************)
(* Model of wotan.flatten.flatten (src/wotan/flatten.py): one call of      *)
(* flatten, stepped statement block by statement block.                    *)
(*                                                                         *)
(* Floating point values are records [k, n, d]: k = "fin" is the rational  *)
(* n/d (d > 0, lowest terms), k = "nan", "inf", "ninf" are the IEEE        *)
(* specials and k = "none" is Python's None.                               *)
(***************************************************************************)
EXTENDS Integers, Sequences, FiniteSets, TLC

\* Largest number of samples in a generated light curve.
MaxLen == 3

----------------------------------------------------------------------------
\* Values

Val(k, n, d) == [k |-> k, n |-> n, d |-> d]
nan  == Val("nan", 0, 1)
inf  == Val("inf", 0, 1)
ninf == Val("ninf", 0, 1)
None == Val("none", 0, 1)

Abs(x) == IF x < 0 THEN -x ELSE x

RECURSIVE GCD(_, _)
GCD(a, b) == IF b = 0 THEN a ELSE GCD(b, a % b)

Rat(n, d) ==
    LET g == GCD(Abs(n), Abs(d))
        s == IF d < 0 THEN -1 ELSE 1
    IN  Val("fin", (s * n) \div g, (s * d) \div g)

Fin(n) == Val("fin", n, 1)

isnan(x)    == x.k = "nan"
IsFinite(x) == x.k = "fin"
IsInfinite(x) == x.k \in {"inf", "ninf"}

Sign(x) == IF x.k = "inf" THEN 1
           ELSE IF x.k = "ninf" THEN -1
           ELSE IF x.n > 0 THEN 1 ELSE IF x.n < 0 THEN -1 ELSE 0

InfOf(s) == IF s > 0 THEN inf ELSE ninf

\* IEEE product, as in time * flux
Mul(a, b) ==
    IF isnan(a) \/ isnan(b) THEN nan
    ELSE IF IsFinite(a) /\ IsFinite(b) THEN Rat(a.n * b.n, a.d * b.d)
    ELSE IF Sign(a) * Sign(b) = 0 THEN nan
    ELSE InfOf(Sign(a) * Sign(b))

\* IEEE (numpy) quotient, as in flux / trend_lc and window_length / 2
Div(a, b) ==
    IF isnan(a) \/ isnan(b) THEN nan
    ELSE IF IsFinite(a) /\ IsFinite(b)
         THEN IF b.n = 0
              THEN IF a.n = 0 THEN nan ELSE InfOf(Sign(a))
              ELSE Rat(a.n * b.d, a.d * b.n)
    ELSE IF IsInfinite(a) /\ IsInfinite(b) THEN nan
    ELSE IF IsInfinite(a) THEN InfOf(Sign(a) * (IF Sign(b) < 0 THEN -1 ELSE 1))
    ELSE Fin(0)

\* IEEE difference
Sub(a, b) ==
    IF isnan(a) \/ isnan(b) THEN nan
    ELSE IF IsFinite(a) /\ IsFinite(b) THEN Rat(a.n * b.d - b.n * a.d, a.d * b.d)
    ELSE IF IsInfinite(a) THEN (IF a = b THEN nan ELSE a)
    ELSE InfOf(-Sign(b))

\* IEEE a > b: false as soon as one side is NaN
Gt(a, b) ==
    IF isnan(a) \/ isnan(b) THEN FALSE
    ELSE IF IsFinite(a) /\ IsFinite(b) THEN a.n * b.d > b.n * a.d
    ELSE IF a.k = "inf" THEN b.k # "inf"
    ELSE IF a.k = "ninf" THEN FALSE
    ELSE b.k = "ninf"

Lt(a, b) == Gt(b, a)
Ge(a, b) == Gt(a, b) \/ (~isnan(a) /\ a = b)
Le(a, b) == Ge(b, a)

\* Python's builtin max / min over an array: keeps the first element unless a
\* later one compares greater / smaller (comparisons with NaN are false).
RECURSIVE PyMaxFrom(_, _, _)
PyMaxFrom(s, j, m) ==
    IF j > Len(s) THEN m
    ELSE PyMaxFrom(s, j + 1, IF Gt(s[j], m) THEN s[j] ELSE m)
PyMax(s) == PyMaxFrom(s, 2, s[1])

RECURSIVE PyMinFrom(_, _, _)
PyMinFrom(s, j, m) ==
    IF j > Len(s) THEN m
    ELSE PyMinFrom(s, j + 1, IF Lt(s[j], m) THEN s[j] ELSE m)
PyMin(s) == PyMinFrom(s, 2, s[1])

\* numpy.max / numpy.min: NaN if any element is NaN
NpMax(s) == IF \E j \in 1..Len(s) : isnan(s[j]) THEN nan ELSE PyMax(s)
NpMin(s) == IF \E j \in 1..Len(s) : isnan(s[j]) THEN nan ELSE PyMin(s)

----------------------------------------------------------------------------
\* Pure parts of flatten

\* constants.methods: the method names flatten accepts
methods == {"biweight", "andrewsinewave", "welsch", "hodges", "median", "mean",
            "trim_mean", "winsorize", "huber", "lowess", "hspline",
            "supersmoother", "cofiam", "savgol", "medfilt", "gp", "untrendy",
            "pspline"}

MethodSupported(m) == m \in methods

\* 0 stands for "method_code was never assigned"
MethodCode(m) ==
    IF m = "biweight" THEN 1
    ELSE IF m = "andrewsinewave" THEN 2
    ELSE IF m = "welsch" THEN 3
    ELSE IF m = "hodges" THEN 4
    ELSE IF m = "median" THEN 5
    ELSE IF m = "mean" THEN 6
    ELSE IF m = "trim_mean" THEN 7
    ELSE IF m = "winsorize" THEN 8
    ELSE 0

\* Validation that keeps the isinstance test and loses the range test
ProportionNotFloat(p) == ~p.isfloat

\* proportiontocut is [isfloat, v]: the isinstance test and the range test
ProportionInvalid(p) ==
    \/ ~p.isfloat
    \/ Ge(p.v, Rat(1, 2))
    \/ Le(p.v, Fin(0))

DefaultCval(m, c, p) ==
    IF c # None THEN c
    ELSE IF m = "biweight" THEN Fin(5)
    ELSE IF m = "andrewsinewave" THEN Rat(1339, 1000)
    ELSE IF m = "welsch" THEN Rat(211, 100)
    ELSE IF m = "huber" THEN Rat(3, 2)
    ELSE IF m \in {"trim_mean", "winsorize"} THEN p.v
    ELSE IF m = "savgol" THEN Fin(2)
    ELSE Fin(0)

\* supersmoother_alpha; None also stands for "never assigned"
SupersmootherAlpha(m, c) ==
    IF c # None /\ m = "supersmoother" /\ Gt(c, Fin(0)) /\ Lt(c, Fin(10))
    THEN c ELSE None

ResolveWindowLength(w) == IF w = None THEN Fin(2) ELSE w

\* Resolution without the "0 disables splitting" escape hatch
ResolveBreakToleranceLiteral(b, w) == IF b = None THEN Div(w, Fin(2)) ELSE b

\* w is the window length after ResolveWindowLength
ResolveBreakTolerance(b, w) ==
    LET b1 == IF b = None THEN Div(w, Fin(2)) ELSE b
    IN  IF b1 = Fin(0) THEN inf ELSE b1

Mask(t, f) == [j \in 1..Len(t) |-> isnan(Mul(t[j], f[j]))]

RECURSIVE CompressedFrom(_, _, _)
CompressedFrom(a, m, j) ==
    IF j > Len(a) THEN <<>>
    ELSE (IF m[j] THEN <<>> ELSE <<a[j]>>) \o CompressedFrom(a, m, j + 1)
Compressed(a, m) == CompressedFrom(a, m, 1)

\* where(~mask)[0]: the 0-based indexes of the unmasked samples
RECURSIVE UnmaskedFrom(_, _)
UnmaskedFrom(m, j) ==
    IF j > Len(m) THEN <<>>
    ELSE (IF m[j] THEN <<>> ELSE <<j - 1>>) \o UnmaskedFrom(m, j + 1)
Unmasked(m) == UnmaskedFrom(m, 1)

\* GapSegmenter: 0-based segment boundaries, a boundary after every pair of
\* neighbours further apart than the tolerance
RECURSIVE GapsFrom(_, _, _)
GapsFrom(t, tol, j) ==
    IF j >= Len(t) THEN <<>>
    ELSE (IF Gt(Sub(t[j + 1], t[j]), tol) THEN <<j>> ELSE <<>>)
         \o GapsFrom(t, tol, j + 1)
get_gaps_indexes(t, tol) == <<0>> \o GapsFrom(t, tol, 1) \o <<Len(t)>>

\* Python slice a[lo:hi] with 0-based bounds
View(a, lo, hi) == SubSeq(a, lo + 1, hi)

Full(n, v) == [j \in 1..n |-> v]

\* Reassembly that forgets the mask: trend_lc[idx] = trend_flux[idx]
TrendLcDense(n, um, tf) ==
    [j \in 1..n |-> IF j <= Len(um) THEN tf[j] ELSE nan]

\* for idx in range(len(mask)): trend_lc[mask[idx]] = trend_flux[idx]
RECURSIVE InsertFrom(_, _, _, _)
InsertFrom(lc, um, tf, idx) ==
    IF idx > Len(um) THEN lc
    ELSE InsertFrom([lc EXCEPT ![um[idx] + 1] = tf[idx]], um, tf, idx + 1)
TrendLc(n, um, tf) == InsertFrom(Full(n, nan), um, tf, 1)

\* Division that keeps only the samples with a trend
FlattenLcDefined(f, lc) ==
    Compressed([j \in 1..Len(f) |-> Div(f[j], lc[j])],
               [j \in 1..Len(f) |-> isnan(lc[j])])

\* flux / trend_lc, elementwise
FlattenLc(f, lc) == [j \in 1..Len(f) |-> Div(f[j], lc[j])]

\* savgol: an even window_length is made odd
SavgolWindow(w) == IF w.k = "fin" /\ w.d = 1 /\ w.n % 2 = 0 THEN Fin(w.n + 1) ELSE w

\* int(cval): truncation towards zero
IntOf(c) == Fin(Sign(c) * (Abs(c.n) \div c.d))

WindowedMethods == {"biweight", "andrewsinewave", "welsch", "hodges", "median",
                    "mean", "trim_mean", "winsorize"}

\* Methods whose backend is imported inside the segment loop
ImportedMethods == {"lowess", "supersmoother", "untrendy"}

\* The error the dispatch of a segment raises before it reaches the backend:
\* numpy.max of the empty compressed array (lowess), max() of the empty time
\* array (supersmoother)
DispatchError(m, t, tc) ==
    IF m = "lowess" /\ Len(tc) = 0 THEN "ValueError"
    ELSE IF m = "supersmoother" /\ Len(t) = 0 THEN "ValueError"
    ELSE "none"

\* The call made for one segment: the backend and what it is handed.
\* t is the whole time array, tc the whole compressed time array, tv and fv
\* the segment's views, w the window length as the backend sees it, kernel
\* the triple (kernel, kernel_size, kernel_period).
Invocation(m, t, tc, tv, fv, w, e, c, code, alpha, kernel) ==
    LET call(b, ps) == [backend |-> b, time_view |-> tv, flux_view |-> fv,
                        params |-> ps]
        fluxonly(b, ps) == [backend |-> b, time_view |-> <<>>, flux_view |-> fv,
                            params |-> ps]
    IN  IF m \in WindowedMethods
        THEN call("running_segment", <<w, e, c, Fin(code)>>)
        ELSE IF m = "huber" THEN call("running_segment_huber", <<w, e, c>>)
        ELSE IF m = "lowess"
        THEN call("lowess", <<Div(w, Sub(NpMax(tc), NpMin(tc)))>>)
        ELSE IF m = "hspline" THEN call("detrend_huber_spline", <<w>>)
        ELSE IF m = "supersmoother"
        THEN call("supersmoother", <<alpha, Div(w, Sub(PyMax(t), PyMin(t)))>>)
        ELSE IF m = "cofiam" THEN call("detrend_cofiam", <<w>>)
        ELSE IF m = "savgol" THEN fluxonly("savgol_filter", <<w, IntOf(c)>>)
        ELSE IF m = "medfilt" THEN fluxonly("medfilt", <<w>>)
        ELSE IF m = "gp" THEN call("make_gp", kernel)
        ELSE IF m = "untrendy" THEN call("fit_trend", <<w>>)
        ELSE call("pspline", <<>>)

\* Values a backend outside flatten may put into a trend segment
TrendVals == {Fin(0), Fin(1), nan}

SeqsOfLen(S, n) == [1..n -> S]

AbsVal(x) == IF x.k = "ninf" THEN inf
             ELSE IF x.k = "fin" THEN Rat(Abs(x.n), x.d) ELSE x

Add(a, b) == Sub(a, Sub(Fin(0), b))

\* WindowEstimator: the samples of the segment within half a window length
\* of sample j
Window(tv, w, j) ==
    {k \in 1..Len(tv) : Le(AbsVal(Sub(tv[k], tv[j])), Div(w, Fin(2)))}

\* Sample j is closer than the edge cutoff to an end of the segment
EdgeCut(tv, e, j) ==
    /\ Gt(e, Fin(0))
    /\ Lt(Sub(tv[j], tv[1]), e) \/ Lt(Sub(tv[Len(tv)], tv[j]), e)

RECURSIVE SumOver(_, _)
SumOver(fv, W) ==
    IF W = {} THEN Fin(0)
    ELSE LET k == CHOOSE x \in W : TRUE
         IN  Add(fv[k], SumOver(fv, W \ {k}))

\* RobustLocationEstimators: what an estimator may return for the window W.
\* A window of identical values gives that value; otherwise the estimate
\* lies between the smallest and the largest value of the window, of which
\* the model takes the two ends and the mean. Windows with an infinite flux
\* and empty windows are not specified: any special value may come out.
Estimates(fv, W) ==
    LET vals == {fv[k] : k \in W}
    IN  IF W = {} THEN {nan}
        ELSE IF \E v \in vals : ~IsFinite(v) THEN vals \cup {nan, inf, ninf}
        ELSE IF Cardinality(vals) = 1 THEN vals
        ELSE { CHOOSE v \in vals : \A u \in vals : Le(v, u),
               Div(SumOver(fv, W), Fin(Cardinality(W))),
               CHOOSE v \in vals : \A u \in vals : Ge(v, u) }

\* running_segment and running_segment_huber: one estimate per sample, NaN
\* inside the edge cutoff
running_segment(tv, fv, w, e) ==
    LET cand(j) == IF EdgeCut(tv, e, j) THEN {nan} ELSE Estimates(fv, Window(tv, w, j))
    IN  {s \in SeqsOfLen(UNION {cand(j) : j \in 1..Len(tv)}, Len(tv)) :
            \A j \in 1..Len(tv) : s[j] \in cand(j)}

\* What a backend may return for a segment. The window estimator returns one
\* value per sample; the other backends are outside flatten and may return
\* any values, and one value too few or too many.
BackendReturns(m, tv, fv, w, e) ==
    IF m \in WindowedMethods \cup {"huber"} THEN running_segment(tv, fv, w, e)
    ELSE UNION {SeqsOfLen(TrendVals, k)
                : k \in {j \in {Len(tv) - 1, Len(tv), Len(tv) + 1} : j >= 0}}

----------------------------------------------------------------------------
\* Inputs

\* The samples that may follow the times ts: the next finite time is one or
\* three after the last finite one (three is a gap under the default
\* tolerance of 1), or the time or the flux is missing or infinite.
RECURSIVE LastFinite(_)
LastFinite(ts) ==
    IF Len(ts) = 0 THEN -1
    ELSE IF IsFinite(ts[Len(ts)]) THEN ts[Len(ts)].n
    ELSE LastFinite(SubSeq(ts, 1, Len(ts) - 1))

NextSamples(ts) ==
    LET l == LastFinite(ts)
    IN  { <<Fin(l + 1), Fin(1)>>, <<Fin(l + 3), Fin(1)>>, <<Fin(l + 1), Fin(0)>>,
          <<nan, Fin(1)>>, <<Fin(l + 1), nan>>,
          <<inf, Fin(1)>>, <<Fin(l + 1), inf>> }

RECURSIVE SeriesOfLen(_)
SeriesOfLen(n) ==
    IF n = 0 THEN {[time |-> <<>>, flux |-> <<>>]}
    ELSE UNION { { [time |-> Append(s.time, tf[1]), flux |-> Append(s.flux, tf[2])]
                   : tf \in NextSamples(s.time) } : s \in SeriesOfLen(n - 1) }

AllSeries == UNION {SeriesOfLen(n) : n \in 0..MaxLen}

\* Three light curves for the calls that vary the parameters: two segments
\* with a zero flux; a negative infinite flux; an infinite time with zero flux
FixedSeries ==
    { [time |-> <<Fin(0), Fin(1), Fin(4)>>, flux |-> <<Fin(1), Fin(0), Fin(1)>>],
      [time |-> <<Fin(0), Fin(1)>>,         flux |-> <<ninf, Fin(1)>>],
      [time |-> <<inf>>,                    flux |-> <<Fin(0)>>] }

Float(v)    == [isfloat |-> TRUE, v |-> v]
NonFloat(v) == [isfloat |-> FALSE, v |-> v]

Proportions == {Float(Rat(1, 10)), Float(Rat(3, 5)), Float(Fin(0)),
                Float(Rat(1, 2)), NonFloat(Fin(1))}

NoKernel == <<None, None, None>>

Call(s, m, w, e, b, c, r, p) ==
    [time |-> s.time, flux |-> s.flux, window_length |-> w, edge_cutoff |-> e,
     break_tolerance |-> b, cval |-> c, return_trend |-> r, method |-> m,
     kernel |-> NoKernel, proportiontocut |-> p]

\* Every light curve, default parameters
SeriesCalls ==
    { Call(s, "biweight", None, Fin(0), None, None, TRUE, Float(Rat(1, 10)))
      : s \in AllSeries }

\* Every method, proportiontocut and cval
MethodCalls ==
    { Call(s, m, None, Fin(0), None, c, r, p)
      : s \in FixedSeries, m \in methods \cup {"not_a_method"},
        c \in {None, Fin(5)}, r \in BOOLEAN, p \in Proportions }

\* Window lengths, edge cutoffs and break tolerances
WindowCalls ==
    { Call(s, m, w, e, b, None, FALSE, Float(Rat(1, 10)))
      : s \in FixedSeries,
        m \in {"biweight", "savgol", "lowess", "supersmoother", "medfilt"},
        w \in {None, Fin(2), Fin(3)}, e \in {Fin(0), Fin(1)},
        b \in {None, Fin(0), Fin(2)} }

Calls == SeriesCalls \cup MethodCalls \cup WindowCalls

----------------------------------------------------------------------------
\* The call

VARIABLES
    call,                \* the arguments as the caller passed them
    pc,                  \* the block of flatten to run next
    method_code, cval, supersmoother_alpha, window_length, break_tolerance,
    time, flux, mask, time_compressed, flux_compressed,
    gaps_indexes, i, trend_flux, trend_segment, trend_lc, flatten_lc,
    result,              \* <<>>, <<flatten_lc>> or <<flatten_lc, trend_lc>>
    raised,              \* "none" or the error the call ended with
    masked,              \* history: the inputs have been masked
    segmenter_args,      \* history: the calls of get_gaps_indexes
    invoked,             \* history: the backend calls, one per segment
    segment_trends       \* history: what each backend call returned

vars == <<call, pc, method_code, cval, supersmoother_alpha, window_length,
          break_tolerance, time, flux, mask, time_compressed, flux_compressed,
          gaps_indexes, i, trend_flux, trend_segment, trend_lc, flatten_lc,
          result, raised, masked, segmenter_args, invoked, segment_trends>>

params  == <<method_code, cval, supersmoother_alpha, window_length, break_tolerance>>
arrays  == <<time, flux, mask, time_compressed, flux_compressed>>
loop    == <<gaps_indexes, i, trend_flux, trend_segment>>
outputs == <<trend_lc, flatten_lc, result>>
history == <<masked, segmenter_args, invoked, segment_trends>>

Init ==
    /\ call \in Calls
    /\ pc = "check_method"
    /\ method_code = 0
    /\ cval = call.cval
    /\ supersmoother_alpha = None
    /\ window_length = call.window_length
    /\ break_tolerance = call.break_tolerance
    /\ time = call.time
    /\ flux = call.flux
    /\ mask = <<>>
    /\ time_compressed = <<>>
    /\ flux_compressed = <<>>
    /\ gaps_indexes = <<>>
    /\ i = 0
    /\ trend_flux = <<>>
    /\ trend_segment = <<>>
    /\ trend_lc = <<>>
    /\ flatten_lc = <<>>
    /\ result = <<>>
    /\ raised = "none"
    /\ masked = FALSE
    /\ segmenter_args = <<>>
    /\ invoked = <<>>
    /\ segment_trends = <<>>

Raise(e) == pc' = "raised" /\ raised' = e

\* if method not in constants.methods: raise ValueError
CheckMethod ==
    /\ pc = "check_method"
    /\ IF MethodSupported(call.method)
       THEN pc' = "method_code" /\ UNCHANGED raised
       ELSE Raise("InvalidMethod")
    /\ UNCHANGED <<call, params, arrays, loop, outputs, history>>

AssignMethodCode ==
    /\ pc = "method_code"
    /\ method_code' = MethodCode(call.method)
    /\ pc' = "check_proportion"
    /\ UNCHANGED <<call, cval, supersmoother_alpha, window_length,
                   break_tolerance, arrays, loop, outputs, raised, history>>

CheckProportion ==
    /\ pc = "check_proportion"
    /\ IF ProportionInvalid(call.proportiontocut)
       THEN Raise("InvalidParameter")
       ELSE pc' = "default_cval" /\ UNCHANGED raised
    /\ UNCHANGED <<call, params, arrays, loop, outputs, history>>

AssignCval ==
    /\ pc = "default_cval"
    /\ cval' = DefaultCval(call.method, cval, call.proportiontocut)
    /\ supersmoother_alpha' = SupersmootherAlpha(call.method, cval')
    /\ pc' = "tolerance"
    /\ UNCHANGED <<call, method_code, window_length, break_tolerance, arrays,
                   loop, outputs, raised, history>>

AssignBreakTolerance ==
    /\ pc = "tolerance"
    /\ window_length' = ResolveWindowLength(window_length)
    /\ break_tolerance' = ResolveBreakTolerance(break_tolerance, window_length')
    /\ pc' = "mask"
    /\ UNCHANGED <<call, method_code, cval, supersmoother_alpha, arrays, loop,
                   outputs, raised, history>>

\* array(..., dtype=float32) keeps every value of the model's light curves
MaskInputs ==
    /\ pc = "mask"
    /\ mask' = Mask(time, flux)
    /\ time_compressed' = Compressed(time, mask')
    /\ flux_compressed' = Compressed(flux, mask')
    /\ masked' = TRUE
    /\ pc' = "gaps"
    /\ UNCHANGED <<call, params, time, flux, loop, outputs, raised,
                   segmenter_args, invoked, segment_trends>>

GetGaps ==
    /\ pc = "gaps"
    /\ gaps_indexes' = get_gaps_indexes(time_compressed, break_tolerance)
    /\ segmenter_args' = Append(segmenter_args,
            [time |-> time_compressed, break_tolerance |-> break_tolerance])
    /\ trend_flux' = <<>>
    /\ trend_segment' = <<>>
    /\ i' = 0
    /\ pc' = "segments"
    /\ UNCHANGED <<call, params, arrays, outputs, raised, masked, invoked,
                   segment_trends>>

\* One pass of the loop over the segments
DispatchSegment ==
    /\ pc = "segments"
    /\ i < Len(gaps_indexes) - 1
    /\ LET time_view == View(time_compressed, gaps_indexes[i + 1], gaps_indexes[i + 2])
           flux_view == View(flux_compressed, gaps_indexes[i + 1], gaps_indexes[i + 2])
           w == IF call.method = "savgol" THEN SavgolWindow(window_length)
                ELSE window_length
           error == DispatchError(call.method, time, time_compressed)
       IN  \/ /\ call.method \in ImportedMethods
              /\ Raise("ImportError")
              /\ UNCHANGED <<params, loop, invoked, segment_trends>>
           \/ /\ error # "none"
              /\ Raise(error)
              /\ UNCHANGED <<params, loop, invoked, segment_trends>>
           \/ /\ error = "none"
              /\ \E segment \in BackendReturns(call.method, time_view, flux_view,
                                            w, call.edge_cutoff) :
                    /\ trend_segment' = segment
                    /\ trend_flux' = trend_flux \o segment
                    /\ segment_trends' = Append(segment_trends, segment)
              /\ invoked' = Append(invoked,
                    Invocation(call.method, time, time_compressed, time_view,
                               flux_view, w, call.edge_cutoff, cval, method_code,
                               supersmoother_alpha, call.kernel))
              /\ window_length' = w
              /\ i' = i + 1
              /\ UNCHANGED <<pc, raised, method_code, cval, supersmoother_alpha,
                             break_tolerance, gaps_indexes>>
    /\ UNCHANGED <<call, arrays, outputs, masked, segmenter_args>>

\* trend_lc = full(len(time), nan), then the copy loop; trend_flux[idx] past
\* the end of trend_flux is an IndexError
InsertTrend ==
    /\ pc = "segments"
    /\ i >= Len(gaps_indexes) - 1
    /\ IF Len(trend_flux) < Len(Unmasked(mask))
       THEN Raise("IndexError") /\ UNCHANGED trend_lc
       ELSE /\ trend_lc' = TrendLc(Len(time), Unmasked(mask), trend_flux)
            /\ pc' = "divide"
            /\ UNCHANGED raised
    /\ UNCHANGED <<call, params, arrays, loop, flatten_lc, result, history>>

Return ==
    /\ pc = "divide"
    /\ flatten_lc' = FlattenLc(flux, trend_lc)
    /\ result' = IF call.return_trend THEN <<flatten_lc', trend_lc>>
                 ELSE <<flatten_lc'>>
    /\ pc' = "returned"
    /\ UNCHANGED <<call, params, arrays, loop, trend_lc, raised, history>>

Next ==
    \/ CheckMethod
    \/ AssignMethodCode
    \/ CheckProportion
    \/ AssignCval
    \/ AssignBreakTolerance
    \/ MaskInputs
    \/ GetGaps
    \/ DispatchSegment
    \/ InsertTrend
    \/ Return

Spec == Init /\ [][Next]_vars

----------------------------------------------------------------------------
\* Properties

Returned == pc = "returned"

Indexes == 1..Len(call.time)

\* The input sample j is missing: its time or its flux is NaN, or their
\* product is (an infinite value times zero)
InputMasked(j) == isnan(Mul(call.time[j], call.flux[j]))

NonFinite(j) == ~IsFinite(call.time[j]) \/ ~IsFinite(call.flux[j])

\* The number of unmasked samples among the first j
Rank(j) == Cardinality({k \in 1..j : ~InputMasked(k)})

RECURSIVE Concat(_)
Concat(ss) == IF Len(ss) = 0 THEN <<>> ELSE Head(ss) \o Concat(Tail(ss))

SegmentCount == Len(gaps_indexes) - 1
SegmentLen(s) == gaps_indexes[s + 1] - gaps_indexes[s]

\* C1: a returned flattened array has len(time) elements, and with
\* return_trend the returned trend array has len(time) elements too.
LengthInvariant ==
    Returned =>
        /\ Len(result[1]) = Len(call.time)
        /\ call.return_trend => Len(result) = 2 /\ Len(result[2]) = Len(call.time)

LengthWitness ==
    /\ Returned
    /\ call.return_trend
    /\ SegmentCount >= 2
    /\ \E j \in Indexes : mask[j]
    /\ Len(result[2]) = MaxLen

\* C2: every sample whose time or flux is not finite is left out of the
\* compressed arrays, gets a NaN trend and a non-finite flattened value, and
\* the call does not fail because of it.
MaskingNonFinite ==
    /\ masked => \A j \in Indexes : NonFinite(j) => mask[j]
    /\ masked => Len(time_compressed) = Cardinality({j \in Indexes : ~NonFinite(j)})
    /\ Returned => \A j \in Indexes :
            NonFinite(j) => isnan(trend_lc[j]) /\ ~IsFinite(flatten_lc[j])
    /\ call.method \in WindowedMethods \cup {"huber"}
            /\ ~ProportionInvalid(call.proportiontocut) => raised = "none"

\* C3: after the loop the k-th unmasked index holds the k-th element of the
\* concatenation of the segment trends, in the order the segments were
\* produced; when every segment trend has its segment's length that value is
\* the one its own segment produced for it; masked indexes hold NaN.
TrendReassembly ==
    pc \in {"divide", "returned"} =>
        /\ trend_flux = Concat(segment_trends)
        /\ Len(segment_trends) = SegmentCount
        /\ \A j \in Indexes :
              IF InputMasked(j) THEN isnan(trend_lc[j])
              ELSE trend_lc[j] = Concat(segment_trends)[Rank(j)]
        /\ (\A s \in 1..SegmentCount : Len(segment_trends[s]) = SegmentLen(s)) =>
              \A j \in Indexes : ~InputMasked(j) =>
                  /\ Cardinality({s \in 1..SegmentCount :
                        gaps_indexes[s] < Rank(j) /\ Rank(j) <= gaps_indexes[s + 1]}) = 1
                  /\ \A s \in 1..SegmentCount :
                        gaps_indexes[s] < Rank(j) /\ Rank(j) <= gaps_indexes[s + 1] =>
                            trend_lc[j] = segment_trends[s][Rank(j) - gaps_indexes[s]]

\* two segments, a masked sample before an unmasked one, and trend values
\* that differ between the segments
ReassemblyWitness ==
    /\ pc = "divide"
    /\ SegmentCount = 2
    /\ \A s \in 1..SegmentCount : Len(segment_trends[s]) = SegmentLen(s)
    /\ \E j \in Indexes : InputMasked(j) /\ j < Len(call.time)
                          /\ ~InputMasked(j + 1) /\ trend_lc[j + 1] = Fin(1)
    /\ \E j \in Indexes : ~InputMasked(j) /\ trend_lc[j] = Fin(0)


InsideHalf(v) == Gt(v, Fin(0)) /\ Lt(v, Rat(1, 2))

NothingComputed ==
    /\ ~masked
    /\ segmenter_args = <<>>
    /\ invoked = <<>>
    /\ result = <<>>

FiniteWhereDefined ==
    Returned => \A j \in Indexes :
        IsFinite(call.time[j]) /\ IsFinite(call.flux[j]) /\ ~isnan(trend_lc[j])
            => IsFinite(flatten_lc[j])

\* The call flatten would make for segment b of the light curve s2 under the
\* parameters of the current call
SegmentBounds(s2) ==
    get_gaps_indexes(Compressed(s2.time, Mask(s2.time, s2.flux)), break_tolerance)

InvocationFor(s2, b) ==
    LET m2 == Mask(s2.time, s2.flux)
        tc == Compressed(s2.time, m2)
        fc == Compressed(s2.flux, m2)
        g  == get_gaps_indexes(tc, break_tolerance)
    IN  Invocation(call.method, s2.time, tc, View(tc, g[b], g[b + 1]),
                   View(fc, g[b], g[b + 1]), window_length, call.edge_cutoff,
                   cval, method_code, supersmoother_alpha, call.kernel)

SameSegment(s2, b, a) ==
    LET m2 == Mask(s2.time, s2.flux)
        tc == Compressed(s2.time, m2)
        fc == Compressed(s2.flux, m2)
        g  == get_gaps_indexes(tc, break_tolerance)
    IN  /\ View(tc, g[b], g[b + 1])
            = View(time_compressed, gaps_indexes[a], gaps_indexes[a + 1])
        /\ View(fc, g[b], g[b + 1])
            = View(flux_compressed, gaps_indexes[a], gaps_indexes[a + 1])

\* C7: the backend call made for a segment is the same in every call of
\* flatten with the same parameters that has a segment of the same samples,
\* whatever its other segments and its masked samples are.
SegmentIsolation ==
    \A a \in 1..Len(invoked) :
        \A s2 \in SeriesOfLen(Len(call.time)) :
            DispatchError(call.method, s2.time,
                          Compressed(s2.time, Mask(s2.time, s2.flux))) = "none" =>
                \A b \in 1..(Len(SegmentBounds(s2)) - 1) :
                    SameSegment(s2, b, a) => InvocationFor(s2, b) = invoked[a]

\* C8: a call that collected a number of trend values different from the
\* number of unmasked samples does not get past the consistency check.
MismatchIsFatal ==
    pc \in {"divide", "returned"} => Len(trend_flux) = Len(Unmasked(mask))

\* C9: for the methods other than trim_mean and winsorize, proportiontocut
\* never ends the call with InvalidParameter.
ProportionOnlyWhereUsed ==
    call.method \in methods \ {"trim_mean", "winsorize"} =>
        raised # "InvalidParameter"

\* C10: for trim_mean and winsorize the tuning parameter handed to the
\* window estimator is the validated proportiontocut, inside (0, 0.5).
TuningIsProportion ==
    call.method \in {"trim_mean", "winsorize"} =>
        \A a \in 1..Len(invoked) :
            /\ invoked[a].backend = "running_segment"
            /\ invoked[a].params[3] = call.proportiontocut.v
            /\ InsideHalf(invoked[a].params[3])

====
